---- MODULE Spec2Model ----
(***************************************************************************)
(* Bitemporal history engine of lex-app.                                   *)
(*                                                                         *)
(* Level 1 (History rows, valid time), Level 2 (MetaHistory rows, system   *)
(* time), the current ("main") table, and the signal handlers that keep    *)
(* them consistent (lex/core/services/bitemporal_signals.py, wired by      *)
(* lex/core/services/signal_registry.py).                                  *)
(*                                                                         *)
(* Django runs signal receivers synchronously and re-entrantly: a          *)
(* record.save() inside a handler runs the whole post_save receiver list   *)
(* before the handler continues.  The model keeps an explicit call stack   *)
(* of frames; Step executes one frame step (at most one database           *)
(* statement).  Run iterates Step until the stack is empty and gives the   *)
(* effect of a whole handler chain; the sequential specification Spec      *)
(* uses Run, the interleaved specification SpecConc uses Step.             *)
(***************************************************************************)
EXTENDS Integers, Sequences, FiniteSets, TLC

\* ---------------------------------------------------------------- bounds
MaxHist == 3
MaxTime == 1
MaxPurge == 1
MaxConc == 2
MaxFail == 1
MaxEdit == 1
MaxDepth == 16
MaxRace == 3

\* ------------------------------------------------------------- constants
NULL == -1
GraceSeconds == 5

\* the entity written by the single-entity specifications, and the entities
\* of the table
Keys == {1}
AllKeys == {1, 2}
Procs == {1, 2}
Absent == 0
NoTask == <<>>
TieOrders == {"asc", "desc"}

\* ---------------------------------------------------------- record shapes
NoH == [hid |-> 0, key |-> 0, vf |-> 0, vt |-> NULL, type |-> "", snap |-> 0]

NoM == [mid |-> 0, href |-> 0, hid |-> 0, key |-> 0, sys_from |-> 0,
        sys_to |-> NULL, mtype |-> "", vf |-> 0, vt |-> NULL, htype |-> "",
        snap |-> 0, task_name |-> NoTask, task_status |-> "NONE"]

NoEv == [ev |-> "", id |-> 0, hid |-> 0, old |-> NULL, new |-> NULL,
         flag |-> FALSE, open |-> FALSE]

Ev(ev, id, hid, old, new, flag, open) ==
    [ev |-> ev, id |-> id, hid |-> hid, old |-> old, new |-> new,
     flag |-> flag, open |-> open]

NoFrame == [op |-> "", key |-> 0, h |-> NoH, m |-> NoM, flag |-> FALSE,
            created |-> FALSE, allH |-> <<>>, allM |-> <<>>, i |-> 0, t |-> 0]

EmptyDb == [hist |-> {}, meta |-> {}, cur |-> [k \in AllKeys |-> Absent],
            timers |-> <<>>, nextH |-> 1, nextM |-> 1, nPurge |-> 0,
            logging |-> TRUE, log |-> <<>>, backend |-> TRUE,
            nFail |-> 0, nEdit |-> 0, order |-> "asc", steady |-> TRUE]

\* ------------------------------------------------------------ ordering
\* order_by("valid_from", "history_id")
HistBefore(a, b) == a.vf < b.vf \/ (a.vf = b.vf /\ a.hid < b.hid)

RECURSIVE SortHist(_)
SortHist(S) ==
    IF S = {} THEN <<>>
    ELSE LET first == CHOOSE a \in S : \A b \in S \ {a} : HistBefore(a, b)
         IN <<first>> \o SortHist(S \ {first})

\* order_by("sys_from", "meta_history_id")
MetaBefore(a, b) == a.sys_from < b.sys_from \/ (a.sys_from = b.sys_from /\ a.mid < b.mid)

\* order_by("sys_from", "id"): on the MetaHistory model "id" is the copied
\* entity key, equal for all rows of one history_object, so rows with the
\* same sys_from come back in an order the database chooses (tie).
MetaBeforeById(a, b, tie) ==
    \/ a.sys_from < b.sys_from
    \/ /\ a.sys_from = b.sys_from
       /\ a.key < b.key
    \/ /\ a.sys_from = b.sys_from
       /\ a.key = b.key
       /\ IF tie = "asc" THEN a.mid < b.mid ELSE a.mid > b.mid

RECURSIVE SortMetaById(_, _)
SortMetaById(S, tie) ==
    IF S = {} THEN <<>>
    ELSE LET first == CHOOSE a \in S : \A b \in S \ {a} : MetaBeforeById(a, b, tie)
         IN <<first>> \o SortMetaById(S \ {first}, tie)

RECURSIVE SortMeta(_)
SortMeta(S) ==
    IF S = {} THEN <<>>
    ELSE LET first == CHOOSE a \in S : \A b \in S \ {a} : MetaBefore(a, b)
         IN <<first>> \o SortMeta(S \ {first})

\* faulty variant: the siblings are read without the filter on the key
HistOf_AllKeys(db, k) == db.hist

HistOf(db, k) == {h \in db.hist : h.key = k}
MetaOf(db, hid) == {m \in db.meta : m.href = hid}

\* .order_by("-sys_from", "-meta_history_id").first()
LatestMeta(S) ==
    IF S = {} THEN NoM
    ELSE CHOOSE a \in S : \A b \in S \ {a} : MetaBefore(b, a)

\* -------------------------------------------------------------- frames
F(op) == [NoFrame EXCEPT !.op = op]

Res(db, st) == [db |-> db, st |-> st]

Logged(db, e) == IF db.logging THEN [db EXCEPT !.log = Append(@, e)] ELSE db

\* faulty variant: chain_valid_to is not connected to post_save
PostSaveFrames_NoChain(h, flag, created) ==
    << [F("meta_create_historical_record") EXCEPT !.key = h.key, !.h = h,
                                                  !.flag = flag, !.created = created],
       [F("create_meta") EXCEPT !.key = h.key, !.h = h],
       [F("sync_main_table") EXCEPT !.key = h.key, !.h = h] >>

\* The post_save receivers of the History model, in connection order: the
\* MetaHistory provider's own post_save hook (attached when the provider is
\* finalized on the History model), then create_meta, chain_valid_to and
\* sync_main (signal_registry.connect_bitemporal_signals).
PostSaveFrames(h, flag, created) ==
    << [F("meta_create_historical_record") EXCEPT !.key = h.key, !.h = h,
                                                  !.flag = flag, !.created = created],
       [F("create_meta") EXCEPT !.key = h.key, !.h = h],
       [F("chain_valid_to") EXCEPT !.key = h.key, !.h = h],
       [F("sync_main_table") EXCEPT !.key = h.key, !.h = h] >>

\* post_save receiver of the MetaHistory model
MetaPostSaveFrames(m) ==
    << [F("chain_sys_to") EXCEPT !.key = m.key, !.m = m] >>

\* -------------------------------------------------- Level 1 writer
\* Model.save() of the tracked entity: the row is written, then the
\* history provider's post_save hook calls create_historical_record with
\* "+" for an insert and "~" for an update.
StepMainSave(db, f, rest, now) ==
    LET created == db.cur[f.key] = Absent
        db1 == [db EXCEPT !.cur[f.key] = f.h.snap]
        h == [f.h EXCEPT !.type = IF created THEN "+" ELSE "~"]
    IN Res(db1, <<[F("create_historical_record") EXCEPT !.key = f.key, !.h = h, !.t = f.t]>> \o rest)

\* Model.delete() of the tracked entity: the row is removed, then the
\* history provider's post_delete hook calls create_historical_record("-").
StepMainDelete(db, f, rest, now) ==
    LET db1 == [db EXCEPT !.cur[f.key] = Absent]
        h == [f.h EXCEPT !.type = "-"]
    IN Res(db1, <<[F("create_historical_record") EXCEPT !.key = f.key, !.h = h, !.t = f.t]>> \o rest)

\* faulty variant: _history_date is ignored, valid_from is always now
StepCreateHistoricalRecord_Now(db, f, rest, now) ==
    LET h == [f.h EXCEPT !.hid = db.nextH, !.vf = now, !.vt = NULL]
        db1 == [db EXCEPT !.hist = @ \cup {h}, !.nextH = @ + 1]
        db2 == Logged(db1, Ev("hist_insert", h.hid, h.hid, NULL, NULL, FALSE, FALSE))
    IN Res(db2, PostSaveFrames(h, FALSE, TRUE)
                \o <<[F("chain_valid_to") EXCEPT !.key = h.key, !.h = h, !.flag = TRUE]>>
                \o rest)

\* StandardHistory.create_historical_record: valid_from is _history_date or
\* now; the row is inserted (post_save receivers run), then
\* post_create_historical_record is sent (chain_valid_to again).
StepCreateHistoricalRecord(db, f, rest, now) ==
    LET h == [f.h EXCEPT !.hid = db.nextH,
                         !.vf = IF f.t = NULL THEN now ELSE f.t,
                         !.vt = NULL]
        db1 == [db EXCEPT !.hist = @ \cup {h}, !.nextH = @ + 1]
        db2 == Logged(db1, Ev("hist_insert", h.hid, h.hid, NULL, NULL, FALSE, FALSE))
    IN Res(db2, PostSaveFrames(h, FALSE, TRUE)
                \o <<[F("chain_valid_to") EXCEPT !.key = h.key, !.h = h, !.flag = TRUE]>>
                \o rest)

\* HistoryModel.objects.create(id=pk, history_type="-", valid_from=...): the
\* row is inserted by the manager, its post_save receivers run, and no
\* post_create_historical_record is sent.
StepHistoryCreate(db, f, rest) ==
    LET h == [f.h EXCEPT !.hid = db.nextH, !.vt = NULL]
        db1 == [db EXCEPT !.hist = @ \cup {h}, !.nextH = @ + 1]
        db2 == Logged(db1, Ev("hist_insert", h.hid, h.hid, NULL, NULL, FALSE, FALSE))
    IN Res(db2, PostSaveFrames(h, FALSE, TRUE) \o rest)

\* -------------------------------------------------- Level 2 writer
CopyFields(m, h) ==
    [m EXCEPT !.hid = h.hid, !.key = h.key, !.vf = h.vf, !.vt = h.vt,
              !.htype = h.type, !.snap = h.snap]

\* MetaLevelHistoricalRecords.create_historical_record
MetaCreateHistoricalRecord(db, h, flag, created, now) ==
    LET mine == {m \in db.meta : m.hid = h.hid}
        latest == LatestMeta(mine)
        open == \E m \in mine : m.sys_to = NULL
    IN IF flag /\ latest # NoM /\ latest.sys_to = NULL
       THEN [F("meta_save_all") EXCEPT !.key = h.key, !.h = h, !.flag = open,
                                       !.m = CopyFields(latest, h)]
       ELSE [F("meta_save_insert") EXCEPT !.key = h.key, !.h = h, !.flag = open,
               !.m = CopyFields([NoM EXCEPT !.href = h.hid, !.sys_from = now,
                                            !.mtype = IF created THEN "+" ELSE "~"], h)]

StepMetaCreateHistoricalRecord(db, f, rest, now) ==
    Res(db, <<MetaCreateHistoricalRecord(db, f.h, f.flag, f.created, now)>> \o rest)

StepMetaSaveInsert(db, f, rest) ==
    LET m == [f.m EXCEPT !.mid = db.nextM]
        db1 == [db EXCEPT !.meta = @ \cup {m}, !.nextM = @ + 1]
        db2 == Logged(db1, Ev("meta_insert", m.mid, m.hid, NULL, m.sys_from, FALSE, f.flag))
    IN Res(db2, MetaPostSaveFrames(m) \o rest)

StepMetaSaveAll(db, f, rest) ==
    LET m == f.m
        stored == {x \in db.meta : x.mid = m.mid}
        before == IF stored = {} THEN NULL ELSE (CHOOSE x \in stored : TRUE).sys_from
        db1 == [db EXCEPT !.meta = (@ \ stored) \cup {m}]
        db2 == Logged(db1, Ev("meta_inplace", m.mid, m.hid, before, m.sys_from, TRUE, f.flag))
    IN Res(db2, MetaPostSaveFrames(m) \o rest)

\* -------------------------------------------------- Level 2 chain
TargetM(all, j) == IF j < Len(all) THEN all[j + 1].sys_from ELSE NULL

NextDiffM(all, i) ==
    LET D == {j \in i..Len(all) : all[j].sys_to # TargetM(all, j)}
    IN IF D = {} THEN 0 ELSE CHOOSE j \in D : \A x \in D : j <= x

\* on_meta_saved__chain_sys_to: the read of all siblings
StepChainSysTo(db, f, rest, tie) ==
    LET all == SortMetaById(MetaOf(db, f.m.href), tie)
    IN Res(db, <<[F("chain_sys_loop") EXCEPT !.key = f.key, !.m = f.m, !.allM = all, !.i = 1]>> \o rest)

\* on_meta_saved__chain_sys_to: the loop, up to and including the next save
StepChainSysLoop(db, f, rest) ==
    LET j == NextDiffM(f.allM, f.i)
    IN IF j = 0 THEN Res(db, rest)
       ELSE LET r == [f.allM[j] EXCEPT !.sys_to = TargetM(f.allM, j)]
                db1 == [db EXCEPT !.meta = {IF x.mid = r.mid THEN [x EXCEPT !.sys_to = r.sys_to] ELSE x : x \in @}]
                db2 == Logged(db1, Ev("meta_chain", r.mid, r.hid, f.allM[j].sys_to, r.sys_to, FALSE, FALSE))
            IN Res(db2, MetaPostSaveFrames(r) \o <<[f EXCEPT !.i = j + 1]>> \o rest)

\* -------------------------------------------------- Level 1 chain
\* faulty variant: the last pair of the chain is skipped
TargetH_OffByOne(all, j) == IF j + 1 < Len(all) THEN all[j + 1].vf ELSE NULL

\* new_valid_to = next_record.valid_from if next_record else None
TargetH(all, j) == IF j < Len(all) THEN all[j + 1].vf ELSE NULL

\* if record.valid_to != new_valid_to
NeedsSave(valid_to, new_valid_to) == valid_to # new_valid_to

\* is_refinement = (record.valid_to is not None) and (new_valid_to is not None)
IsRefinement(valid_to, new_valid_to) == valid_to # NULL /\ new_valid_to # NULL

\* faulty variant: the loop stops before the last record
NextDiffH_SkipsLast(all, i) ==
    LET D == {j \in i..(Len(all) - 1) : NeedsSave(all[j].vt, TargetH(all, j))}
    IN IF D = {} THEN 0 ELSE CHOOSE j \in D : \A x \in D : j <= x

\* the first record from position i on whose valid_to differs from its target
NextDiffH(all, i) ==
    LET D == {j \in i..Len(all) : NeedsSave(all[j].vt, TargetH(all, j))}
    IN IF D = {} THEN 0 ELSE CHOOSE j \in D : \A x \in D : j <= x

\* faulty variant: the handler acts only when post_create_historical_record
\* calls it, not on the post_save of a record's save
StepChainValidTo_OnInsertOnly(db, f, rest) ==
    IF ~f.flag THEN Res(db, rest)
    ELSE LET all == SortHist(HistOf(db, f.key))
             db1 == Logged(db, Ev("post_create_historical_record", 0, f.h.hid, NULL, NULL, FALSE, FALSE))
         IN Res(db1, <<[F("chain_valid_loop") EXCEPT !.key = f.key, !.h = f.h, !.allH = all, !.i = 1]>> \o rest)

\* on_history_saved__chain_valid_to: the read of all siblings.  flag marks
\* the invocation from post_create_historical_record.
StepChainValidTo(db, f, rest) ==
    LET all == SortHist(HistOf(db, f.key))
        db1 == IF f.flag
               THEN Logged(db, Ev("post_create_historical_record", 0, f.h.hid, NULL, NULL, FALSE, FALSE))
               ELSE db
    IN Res(db1, <<[F("chain_valid_loop") EXCEPT !.key = f.key, !.h = f.h, !.allH = all, !.i = 1]>> \o rest)

\* faulty variant: the rechain saves the record as an update of the entity,
\* which rewrites its version type
StepChainValidLoop_Retyped(db, f, rest) ==
    LET j == NextDiffH(f.allH, f.i)
    IN IF j = 0 THEN Res(db, rest)
       ELSE LET old == f.allH[j].vt
                new == TargetH(f.allH, j)
                r == [f.allH[j] EXCEPT !.vt = new, !.type = "~"]
                flag == IsRefinement(old, new)
                db1 == [db EXCEPT !.hist = {IF x.hid = r.hid THEN r ELSE x : x \in @}]
                db2 == Logged(db1, Ev("rechain_save", r.hid, r.hid, old, new, flag, FALSE))
            IN Res(db2, PostSaveFrames(r, flag, FALSE) \o <<[f EXCEPT !.i = j + 1]>> \o rest)

\* on_history_saved__chain_valid_to: the loop, up to and including the next
\* record.save(update_fields=["valid_to"]), whose post_save receivers run
\* before the loop continues.  The loop keeps the records as it read them.
StepChainValidLoop(db, f, rest) ==
    LET j == NextDiffH(f.allH, f.i)
    IN IF j = 0 THEN Res(db, rest)
       ELSE LET old == f.allH[j].vt
                new == TargetH(f.allH, j)
                r == [f.allH[j] EXCEPT !.vt = new]
                flag == IsRefinement(old, new)
                db1 == [db EXCEPT !.hist = {IF x.hid = r.hid THEN [x EXCEPT !.vt = new] ELSE x : x \in @}]
                db2 == Logged(db1, Ev("rechain_save", r.hid, r.hid, old, new, flag, FALSE))
            IN IF \E x \in db.hist : x.hid = r.hid
               THEN Res(db2, PostSaveFrames(r, flag, FALSE) \o <<[f EXCEPT !.i = j + 1]>> \o rest)
               ELSE \* DatabaseError: the save affected no row; it propagates
                    Res(Logged(db, Ev("error", r.hid, r.hid, old, new, flag, FALSE)), <<>>)

\* -------------------------------------------------- create_meta / scheduling
\* history_instance.valid_from > now + timedelta(seconds=5)
IsFuture(valid_from, now) == valid_from > now + GraceSeconds

\* faulty variant: a meta record is created without looking for an existing one
StepCreateMeta_Always(db, f, rest, now) ==
    Res(db, <<[F("meta_save_insert") EXCEPT !.key = f.key, !.h = f.h,
                 !.m = CopyFields([NoM EXCEPT !.href = f.h.hid, !.sys_from = now, !.mtype = "+"], f.h)]>>
            \o rest)

\* on_history_saved__create_meta: the meta record exists already (written by
\* the provider's hook); without one the handler's create call fails and the
\* error is logged.  A future-dated record is handed to the scheduler.
StepCreateMeta(db, f, rest, now) ==
    LET meta_instance == LatestMeta(MetaOf(db, f.h.hid))
    IN IF meta_instance = NoM THEN Res(db, rest)
       ELSE IF IsFuture(f.h.vf, now)
            THEN Res(db, <<[F("schedule_future_activation") EXCEPT !.key = f.key, !.h = f.h,
                                                                   !.m = meta_instance, !.t = now]>> \o rest)
            ELSE Res(db, rest)

TaskName(hid, now) == <<hid, now>>

\* faulty variant: the scheduler's exception is not caught and propagates to
\* the writer
StepScheduleFutureActivation_Raises(db, f, rest) ==
    IF ~db.backend
    THEN Res(Logged(db, Ev("error", f.m.mid, f.h.hid, NULL, NULL, FALSE, FALSE)), <<>>)
    ELSE Res([db EXCEPT !.timers = Append(@, [hid |-> f.h.hid, at |-> f.h.vf]),
                        !.meta = {IF x.mid = f.m.mid
                                  THEN [x EXCEPT !.task_status = "SCHEDULED",
                                                 !.task_name = TaskName(f.h.hid, f.t)]
                                  ELSE x : x \in @}],
             MetaPostSaveFrames(f.m) \o rest)

\* _schedule_future_activation, local scheduler: the timer is registered,
\* then the meta row's task fields are saved.  meta_task_name is unique: a
\* second row with the same name raises IntegrityError, which create_meta
\* catches and logs.  When the backend is unavailable (its import or its
\* schedule() raises) create_meta catches that too: nothing is registered
\* and the meta row is left alone.
StepScheduleFutureActivation(db, f, rest) ==
    IF ~db.backend THEN Res(db, rest) ELSE
    LET name == TaskName(f.h.hid, f.t)
        m == [f.m EXCEPT !.task_status = "SCHEDULED", !.task_name = name]
        db1 == [db EXCEPT !.timers = Append(@, [hid |-> f.h.hid, at |-> f.h.vf])]
        clash == \E x \in db.meta : x.task_name = name /\ x.mid # m.mid
        db2 == [db1 EXCEPT !.meta = {IF x.mid = m.mid
                                     THEN [x EXCEPT !.task_status = "SCHEDULED", !.task_name = name]
                                     ELSE x : x \in @}]
    IN IF clash THEN Res(db1, rest)
       ELSE Res(db2, MetaPostSaveFrames(m) \o rest)

\* -------------------------------------------------- synchronizer
\* valid_from <= now and (valid_to > now or valid_to is null)
Covers(h, t) == h.vf <= t /\ (h.vt > t \/ h.vt = NULL)

\* .order_by("-valid_from", "-history_id").first()
EffectiveRecord(db, k, now) ==
    LET C == {h \in HistOf(db, k) : Covers(h, now)}
    IN IF C = {} THEN NoH ELSE CHOOSE a \in C : \A b \in C \ {a} : HistBefore(b, a)

\* sync_record_for_model: the read of the effective record
StepSyncMainTable(db, f, rest, now) ==
    Res(db, <<[F("sync_apply") EXCEPT !.key = f.key, !.h = EffectiveRecord(db, f.key, now)]>> \o rest)

\* is_valid = effective_record and effective_record.history_type != "-"
IsValid(effective_record) == effective_record # NoH /\ effective_record.type # "-"

\* faulty variant: the insert of an absent row is recorded as a version
StepSyncApply_WritesHistory(db, f, rest) ==
    IF IsValid(f.h)
    THEN Res([db EXCEPT !.cur[f.key] = f.h.snap],
             (IF db.cur[f.key] = Absent
              THEN <<[F("create_historical_record") EXCEPT
                         !.key = f.key, !.t = NULL,
                         !.h = [NoH EXCEPT !.key = f.key, !.snap = f.h.snap, !.type = "+"]]>>
              ELSE <<>>) \o rest)
    ELSE Res([db EXCEPT !.cur[f.key] = Absent], rest)

\* sync_record_for_model: upsert or removal of the main-table row, saved
\* with skip_history_when_saving so that no history is written.
StepSyncApply(db, f, rest) ==
    IF IsValid(f.h)
    THEN Res([db EXCEPT !.cur[f.key] = f.h.snap], rest)
    ELSE Res([db EXCEPT !.cur[f.key] = Absent], rest)

\* -------------------------------------------------- time-travel query
\* faulty variant: the window end is taken as inclusive
GetQuerysetAsOf_Inclusive(d, as_of) ==
    {h \in d.hist : h.vf <= as_of /\ (h.vt >= as_of \/ h.vt = NULL) /\ h.type # "-"}

\* get_queryset_as_of(main model, as_of): valid-time query
GetQuerysetAsOf(d, as_of) ==
    {h \in d.hist : h.vf <= as_of /\ (h.vt > as_of \/ h.vt = NULL) /\ h.type # "-"}

\* -------------------------------------------------- physical removal
\* on_history_pre_delete__cancel_schedules: the SCHEDULED meta rows of the
\* record are marked CANCELLED (queryset update, no signals).
StepCancelSchedules(db, f, rest) ==
    LET db1 == [db EXCEPT !.meta = {IF x.href = f.h.hid /\ x.task_status = "SCHEDULED"
                                    THEN [x EXCEPT !.task_status = "CANCELLED"]
                                    ELSE x : x \in @}]
    IN Res(db1, <<[F("history_delete") EXCEPT !.key = f.key, !.h = f.h]>> \o rest)

\* HistoryModel row delete; history_object is on_delete=SET_NULL
StepHistoryDelete(db, f, rest) ==
    LET db1 == [db EXCEPT !.hist = {x \in @ : x.hid # f.h.hid}, !.nPurge = @ + 1,
                          !.meta = {IF x.href = f.h.hid THEN [x EXCEPT !.href = NULL] ELSE x : x \in @}]
        db2 == Logged(db1, Ev("hist_delete", f.h.hid, f.h.hid, NULL, NULL, FALSE, FALSE))
    IN Res(db2, <<[F("repair_chain") EXCEPT !.key = f.key, !.h = f.h]>> \o rest)

\* filter(valid_from__lt=instance.valid_from).order_by("-valid_from").first():
\* among rows with the same valid_from the database chooses (tie).
PreviousRecord(db, k, valid_from, tie) ==
    LET P == {h \in HistOf(db, k) : h.vf < valid_from}
    IN IF P = {} THEN NoH
       ELSE CHOOSE a \in P : \A b \in P \ {a} :
              \/ b.vf < a.vf
              \/ b.vf = a.vf /\ (IF tie = "asc" THEN a.hid < b.hid ELSE a.hid > b.hid)

\* filter(valid_from__gt=instance.valid_from).order_by("valid_from").first()
NextValidFrom(db, k, valid_from) ==
    LET N == {h.vf : h \in {x \in HistOf(db, k) : x.vf > valid_from}}
    IN IF N = {} THEN NULL ELSE CHOOSE a \in N : \A b \in N : a <= b

\* on_history_post_delete__repair_chain: the read of previous_record
StepRepairChain(db, f, rest, tie) ==
    LET previous_record == PreviousRecord(db, f.key, f.h.vf, tie)
    IN IF previous_record = NoH THEN Res(db, rest)
       ELSE Res(db, <<[F("repair_next") EXCEPT !.key = f.key, !.h = f.h, !.allH = <<previous_record>>]>> \o rest)

\* on_history_post_delete__repair_chain: the read of next_record
StepRepairNext(db, f, rest) ==
    LET new_valid_to == NextValidFrom(db, f.key, f.h.vf)
        previous_record == [f.allH[1] EXCEPT !.vt = new_valid_to]
    IN Res(db, <<[F("repair_save") EXCEPT !.key = f.key, !.h = previous_record, !.t = f.allH[1].vt]>> \o rest)

\* on_history_post_delete__repair_chain: previous_record.save(update_fields=["valid_to"])
StepRepairSave(db, f, rest) ==
    LET r == f.h
        db1 == [db EXCEPT !.hist = {IF x.hid = r.hid THEN [x EXCEPT !.vt = r.vt] ELSE x : x \in @}]
        db2 == Logged(db1, Ev("repair_save", r.hid, r.hid, f.t, r.vt, FALSE, FALSE))
    IN IF \E x \in db.hist : x.hid = r.hid
       THEN Res(db2, PostSaveFrames(r, FALSE, FALSE) \o rest)
       ELSE Res(Logged(db, Ev("error", r.hid, r.hid, f.t, r.vt, FALSE, FALSE)), <<>>)

\* -------------------------------------------------- one step, and a run
Step(db, st, now, tie) ==
    LET f == Head(st)
        rest == Tail(st)
    IN CASE f.op = "main_save" -> StepMainSave(db, f, rest, now)
         [] f.op = "main_delete" -> StepMainDelete(db, f, rest, now)
         [] f.op = "create_historical_record" -> StepCreateHistoricalRecord(db, f, rest, now)
         [] f.op = "meta_create_historical_record" -> StepMetaCreateHistoricalRecord(db, f, rest, now)
         [] f.op = "meta_save_insert" -> StepMetaSaveInsert(db, f, rest)
         [] f.op = "meta_save_all" -> StepMetaSaveAll(db, f, rest)
         [] f.op = "chain_sys_to" -> StepChainSysTo(db, f, rest, tie)
         [] f.op = "chain_sys_loop" -> StepChainSysLoop(db, f, rest)
         [] f.op = "chain_valid_to" -> StepChainValidTo(db, f, rest)
         [] f.op = "chain_valid_loop" -> StepChainValidLoop(db, f, rest)
         [] f.op = "create_meta" -> StepCreateMeta(db, f, rest, now)
         [] f.op = "schedule_future_activation" -> StepScheduleFutureActivation(db, f, rest)
         [] f.op = "sync_main_table" -> StepSyncMainTable(db, f, rest, now)
         [] f.op = "sync_apply" -> StepSyncApply(db, f, rest)
         [] f.op = "cancel_schedules" -> StepCancelSchedules(db, f, rest)
         [] f.op = "history_delete" -> StepHistoryDelete(db, f, rest)
         [] f.op = "repair_chain" -> StepRepairChain(db, f, rest, tie)
         [] f.op = "repair_next" -> StepRepairNext(db, f, rest)
         [] f.op = "repair_save" -> StepRepairSave(db, f, rest)
         [] f.op = "history_create" -> StepHistoryCreate(db, f, rest)

RECURSIVE Run(_, _, _, _)
Run(db, st, now, tie) ==
    IF st = <<>> THEN db
    ELSE LET r == Step(db, st, now, tie) IN Run(r.db, r.st, now, tie)

\* entry frames of the three operations
SaveFrames(k, val, eff) ==
    <<[F("main_save") EXCEPT !.key = k, !.h = [NoH EXCEPT !.key = k, !.snap = val], !.t = eff]>>

DeleteFrames(k, val, eff) ==
    <<[F("main_delete") EXCEPT !.key = k, !.h = [NoH EXCEPT !.key = k, !.snap = val], !.t = eff]>>

PurgeFrames(h) ==
    <<[F("cancel_schedules") EXCEPT !.key = h.key, !.h = h]>>

\* ------------------------------------------------------------------ state
\* db: the three tables, the scheduler's timers and the log of the last
\* operation; now: the clock; procs: the call stack of each writer that is
\* inside a pipeline (used by the interleaved specification only).
VARIABLES db, now, procs

vars == <<db, now, procs>>

Init ==
    /\ db = EmptyDb
    /\ now = 0
    /\ procs = [p \in Procs |-> <<>>]

\* effective times a caller may pass as _history_date: none (NULL, the
\* default now), the epoch, the next instant (inside the grace window) and
\* an instant beyond the grace window
EffTimes == {NULL, 0, now + 1, MaxTime + GraceSeconds + 1}

\* the field values a caller writes: every write carries a fresh snapshot
NewValue(d) == d.nextH

\* the log describes the last operation; its first entry names it, with the
\* _history_date passed (old) and the clock (new)
Begin(d, op, k, hid, eff) ==
    [d EXCEPT !.log = <<Ev(op, k, hid, eff, now, FALSE, FALSE)>>]

\* entity.save(), optionally with _history_date
EntitySave(k, eff, tie) ==
    /\ db.nextH <= MaxHist
    /\ db' = Run(Begin(db, "entity_save", k, 0, eff), SaveFrames(k, NewValue(db), eff), now, tie)
    /\ UNCHANGED <<now, procs>>

\* entity.delete(), optionally with _history_date
EntityDelete(k, eff, tie) ==
    /\ db.nextH <= MaxHist
    /\ db.cur[k] # Absent
    /\ db' = Run(Begin(db, "entity_delete", k, 0, eff), DeleteFrames(k, db.cur[k], eff), now, tie)
    /\ UNCHANGED <<now, procs>>

\* history_record.delete(): physical removal of one History row
PhysicalDelete(h, tie) ==
    /\ h \in db.hist
    /\ db.nPurge < MaxPurge
    /\ db' = Run(Begin(db, "history_delete", h.key, h.hid, NULL), PurgeFrames(h), now, tie)
    /\ UNCHANGED <<now, procs>>

\* the clock
Tick ==
    /\ now < MaxTime
    /\ now' = now + 1
    /\ UNCHANGED <<db, procs>>

Next ==
    \/ \E k \in Keys, eff \in EffTimes, tie \in TieOrders : EntitySave(k, eff, tie)
    \/ \E k \in Keys, eff \in EffTimes, tie \in TieOrders : EntityDelete(k, eff, tie)
    \/ Tick

\* entity writes and the clock; every operation runs its handlers to the end
Spec == Init /\ [][Next]_vars

NextPurge ==
    \/ Next
    \/ \E h \in db.hist, tie \in TieOrders : PhysicalDelete(h, tie)

\* Spec with physical removal of History rows
SpecPurge == Init /\ [][NextPurge]_vars

\* ------------------------------------------- scheduler and its backend
\* the instant beyond the grace window that callers use as a future date
FarTime == MaxTime + GraceSeconds + 1

\* time passes with no operation until the far instant is reached
Jump ==
    /\ now < FarTime
    /\ now' = FarTime
    /\ UNCHANGED <<db, procs>>

\* the activation callback, run for the record a due timer names: the
\* record is looked up again by id (nothing is done if it is gone), then its
\* key is rechained and synchronized
ActivationFrames(d, hid) ==
    IF \E h \in d.hist : h.hid = hid
    THEN LET h == CHOOSE x \in d.hist : x.hid = hid
         IN << [F("chain_valid_to") EXCEPT !.key = h.key, !.h = h],
               [F("sync_main_table") EXCEPT !.key = h.key, !.h = h] >>
    ELSE <<>>

\* the list without its i-th element
Without(q, i) == SubSeq(q, 1, i - 1) \o SubSeq(q, i + 1, Len(q))

\* the scheduler fires a due timer
Fire(i, tie) ==
    /\ i \in DOMAIN db.timers
    /\ db.timers[i].at <= now
    /\ LET hid == db.timers[i].hid
           db1 == [db EXCEPT !.timers = Without(@, i)]
       IN db' = Run(Begin(db1, "activation", 0, hid, NULL), ActivationFrames(db1, hid), now, tie)
    /\ UNCHANGED <<now, procs>>

FireAny == \E i \in DOMAIN db.timers, tie \in TieOrders : Fire(i, tie)

NextLive ==
    \/ Next
    \/ Jump
    \/ FireAny

\* Spec with the scheduler: the clock advances and due timers fire
SpecLive ==
    /\ Init /\ [][NextLive]_vars
    /\ WF_vars(Tick) /\ WF_vars(Jump) /\ WF_vars(FireAny)

\* the scheduler backend becomes unavailable, or available again
BackendFlip ==
    /\ db' = [db EXCEPT !.backend = ~@]
    /\ UNCHANGED <<now, procs>>

NextBackend ==
    \/ Next
    \/ BackendFlip

\* Spec with a scheduler backend that may be unavailable
SpecBackend == Init /\ [][NextBackend]_vars

\* ------------------------------------------------- failing statements
\* the statements of the rechain and of the sync that write to the database
Failing(f) ==
    \/ f.op = "sync_apply"
    \/ f.op = "chain_valid_loop" /\ NextDiffH(f.allH, f.i) # 0

\* faulty variant: the failing statement undoes the history rows written
\* before it, as a transaction around the write would
RECURSIVE FailOutcomes_RollsBack(_, _, _, _)
FailOutcomes_RollsBack(d, st, t, tie) ==
    IF st = <<>> THEN {}
    ELSE LET r == Step(d, st, t, tie)
             ins == {d.log[j].hid : j \in {x \in DOMAIN d.log : d.log[x].ev = "hist_insert"}}
             undone == [d EXCEPT !.hist = {h \in @ : h.hid \notin ins}, !.nFail = @ + 1]
             here == IF Failing(Head(st))
                     THEN {Logged(undone, Ev("error", 0, Head(st).h.hid, NULL, NULL, FALSE, FALSE))}
                     ELSE {}
         IN here \cup FailOutcomes_RollsBack(r.db, r.st, t, tie)

\* the runs in which one writing statement of the rechain or of the sync
\* raises a database error: the exception leaves every handler on the call
\* stack and reaches the writer; what has been written stays written
\* (autocommit, no transaction is opened).  One outcome per statement that
\* can fail.
RECURSIVE FailOutcomes(_, _, _, _)
FailOutcomes(d, st, t, tie) ==
    IF st = <<>> THEN {}
    ELSE LET r == Step(d, st, t, tie)
             here == IF Failing(Head(st))
                     THEN {Logged([d EXCEPT !.nFail = @ + 1],
                                  Ev("error", 0, Head(st).h.hid, NULL, NULL, FALSE, FALSE))}
                     ELSE {}
         IN here \cup FailOutcomes(r.db, r.st, t, tie)

\* entity.save() whose rechain or sync fails
EntitySaveFails(k, eff, tie) ==
    /\ db.nextH <= MaxHist
    /\ db.nFail < MaxFail
    /\ db' \in FailOutcomes(Begin(db, "entity_save", k, 0, eff), SaveFrames(k, NewValue(db), eff), now, tie)
    /\ UNCHANGED <<now, procs>>

\* entity.delete() whose rechain or sync fails
EntityDeleteFails(k, eff, tie) ==
    /\ db.nextH <= MaxHist
    /\ db.nFail < MaxFail
    /\ db.cur[k] # Absent
    /\ db' \in FailOutcomes(Begin(db, "entity_delete", k, 0, eff), DeleteFrames(k, db.cur[k], eff), now, tie)
    /\ UNCHANGED <<now, procs>>

\* a standalone call of BitemporalSynchronizer.sync_record_for_model, made
\* to retry after a failed write
Resync(k, tie) ==
    /\ \E j \in DOMAIN db.log : db.log[j].ev = "error"
    /\ db' = Run(Begin(db, "resync", k, 0, NULL), <<[F("sync_main_table") EXCEPT !.key = k]>>, now, tie)
    /\ UNCHANGED <<now, procs>>

NextFail ==
    \/ Next
    \/ \E k \in Keys, eff \in EffTimes, tie \in TieOrders : EntitySaveFails(k, eff, tie)
    \/ \E k \in Keys, eff \in EffTimes, tie \in TieOrders : EntityDeleteFails(k, eff, tie)
    \/ \E k \in Keys, tie \in TieOrders : Resync(k, tie)

\* Spec with writes whose rechain or sync fails, and the standalone resync
SpecFail == Init /\ [][NextFail]_vars

\* --------------------------------------------- interleaved specification
\* Two writers (threads or worker processes) call entity.save() on the same
\* key.  Nothing in the handlers or in their registration takes a lock or
\* opens a transaction, so every database statement of one writer may be
\* followed by a statement of the other.
InitConc ==
    /\ db = [EmptyDb EXCEPT !.logging = FALSE]
    /\ now = 0
    /\ procs = [p \in Procs |-> <<>>]

InFlight == {p \in Procs : procs[p] # <<>>}

\* a writer enters entity.save()
ConcSave(p, k, eff) ==
    /\ procs[p] = <<>>
    /\ db.nextH + Cardinality(InFlight) <= MaxConc
    /\ procs' = [procs EXCEPT ![p] = SaveFrames(k, NewValue(db) + p, eff)]
    /\ UNCHANGED <<db, now>>

\* the statements that read or write the History table or the current table
Level1Ops == {"create_historical_record", "chain_valid_to", "chain_valid_loop",
              "sync_main_table", "sync_apply"}

\* one statement of a writer on the History or current table, followed by
\* the Level-2 statements it triggers, up to its next Level-1 statement
RECURSIVE RunToLevel1(_, _, _)
RunToLevel1(r, t, tie) ==
    IF r.st = <<>> \/ Head(r.st).op \in Level1Ops THEN r
    ELSE RunToLevel1(Step(r.db, r.st, t, tie), t, tie)

\* a writer executes its next statement; the other writer may run before
\* the one after it
ConcStep(p, tie) ==
    /\ procs[p] # <<>>
    /\ LET r == RunToLevel1(Step(db, procs[p], now, tie), now, tie)
       IN /\ db' = r.db
          /\ procs' = [procs EXCEPT ![p] = r.st]
    /\ UNCHANGED now

\* the clock stands still while the two writers run
NextConc ==
    \/ \E p \in Procs, k \in Keys, eff \in {NULL, now + 1} : ConcSave(p, k, eff)
    \/ \E p \in Procs, tie \in TieOrders : ConcStep(p, tie)

SpecConc == InitConc /\ [][NextConc]_vars

\* ------------------------------------- two writers and a stored record
\* The key has a record already, written by a save that ran alone; then the
\* two writers save the same key, each statement of one interleaved with
\* the statements of the other.
RaceSeed(k, eff, tie) ==
    /\ db.hist = {}
    /\ InFlight = {}
    /\ db' = Run(db, SaveFrames(k, NewValue(db), eff), now, tie)
    /\ UNCHANGED <<now, procs>>

RaceSave(p, k, eff) ==
    /\ db.hist # {}
    /\ procs[p] = <<>>
    /\ db.nextH + Cardinality(InFlight) <= MaxRace
    /\ procs' = [procs EXCEPT ![p] = SaveFrames(k, NewValue(db) + p, eff)]
    /\ UNCHANGED <<db, now>>

NextRace ==
    \/ \E k \in Keys, eff \in {NULL, now + 1}, tie \in TieOrders : RaceSeed(k, eff, tie)
    \/ \E p \in Procs, k \in Keys, eff \in {NULL, now + 1} : RaceSave(p, k, eff)
    \/ \E p \in Procs, tie \in TieOrders : ConcStep(p, tie)

SpecRace == InitConc /\ [][NextRace]_vars

\* ------------------------------------------- one writer, step by step
\* One writer, whose pipeline is followed statement by statement.  Every
\* read of the MetaRecords is a query of its own.  Where its ORDER BY
\* leaves the order open the database decides: it keeps one order for the
\* whole pipeline (steady), or it returns the rows the other way round
\* after each read, as it may when the rows are rewritten in between.
\* The interpreter gives up when the handlers are nested too deep, and the
\* writer that was given the error writes no more.
Overflowed == \E j \in DOMAIN db.log : db.log[j].ev = "RecursionError"

OtherOrder(tie) == IF tie = "asc" THEN "desc" ELSE "asc"

WriterBegins(k, eff, tie, steady) ==
    /\ procs[1] = <<>>
    /\ ~Overflowed
    /\ db.nextH <= MaxHist
    /\ db' = [Begin(db, "entity_save", k, 0, eff) EXCEPT !.order = tie, !.steady = steady]
    /\ procs' = [procs EXCEPT ![1] = SaveFrames(k, NewValue(db), eff)]
    /\ UNCHANGED now

WriterStep ==
    /\ procs[1] # <<>>
    /\ Len(procs[1]) <= MaxDepth
    /\ LET r == Step(db, procs[1], now, db.order)
           reads == Head(procs[1]).op = "chain_sys_to"
       IN /\ db' = IF reads /\ ~db.steady
                      THEN [r.db EXCEPT !.order = OtherOrder(@)]
                      ELSE r.db
          /\ procs' = [procs EXCEPT ![1] = r.st]
    /\ UNCHANGED now

\* BitemporalSynchronizer.sync_record_for_model called on its own; the log
\* keeps the row as it was before the call
WriterSyncs(k) ==
    /\ procs[1] = <<>>
    /\ ~Overflowed
    /\ db' = Begin(db, "sync_record", k, 0, db.cur[k])
    /\ procs' = [procs EXCEPT ![1] = <<[F("sync_main_table") EXCEPT !.key = k]>>]
    /\ UNCHANGED now

\* RecursionError: it leaves every handler and reaches the writer
WriterOverflow ==
    /\ Len(procs[1]) > MaxDepth
    /\ db' = Logged(db, Ev("RecursionError", 0, 0, NULL, NULL, FALSE, FALSE))
    /\ procs' = [procs EXCEPT ![1] = <<>>]
    /\ UNCHANGED now

WriterIdleTick ==
    /\ procs[1] = <<>>
    /\ ~Overflowed
    /\ Tick

NextSteps ==
    \/ \E k \in Keys, eff \in EffTimes, tie \in TieOrders, steady \in BOOLEAN :
          WriterBegins(k, eff, tie, steady)
    \/ \E k \in Keys : WriterSyncs(k)
    \/ WriterStep
    \/ WriterOverflow
    \/ WriterIdleTick

SpecSteps == Init /\ [][NextSteps]_vars /\ WF_vars(WriterStep) /\ WF_vars(WriterOverflow)

\* ------------------------------------------------------- several entities
NextKeys ==
    \/ \E k \in AllKeys, eff \in EffTimes, tie \in TieOrders : EntitySave(k, eff, tie)
    \/ \E k \in AllKeys, eff \in EffTimes, tie \in TieOrders : EntityDelete(k, eff, tie)
    \/ Tick

\* entity writes to two entities of one model, and the clock
SpecKeys == Init /\ [][NextKeys]_vars

\* ------------------------------------------------- edits of history rows
\* the values a caller puts into valid_from and valid_to of a stored record
EditTimes == {0, 1, FarTime}

\* a caller fetches one HistoryRecord, sets its valid_from and valid_to and
\* calls save(): every field is written and the post_save receivers of the
\* History model run (no post_create_historical_record is sent)
HistorySave(h, vf, vt, tie) ==
    /\ h \in db.hist
    /\ db.nEdit < MaxEdit
    /\ <<vf, vt>> # <<h.vf, h.vt>>
    /\ LET r == [h EXCEPT !.vf = vf, !.vt = vt]
           db1 == [Begin(db, "history_save", h.key, h.hid, NULL)
                     EXCEPT !.hist = (@ \ {h}) \cup {r}, !.nEdit = @ + 1]
           db2 == Logged(db1, Ev("edit", h.hid, h.hid, vf, vt, FALSE, FALSE))
       IN db' = Run(db2, PostSaveFrames(r, FALSE, FALSE), now, tie)
    /\ UNCHANGED <<now, procs>>

NextEditPurge ==
    \/ NextPurge
    \/ \E h \in db.hist, vf \in EditTimes, tie \in TieOrders : HistorySave(h, vf, h.vt, tie)

\* entity writes, physical removal, the clock and edits of a stored
\* valid_from
SpecEditPurge == Init /\ [][NextEditPurge]_vars

NextEdit ==
    \/ Next
    \/ \E h \in db.hist, vf \in EditTimes, tie \in TieOrders : HistorySave(h, vf, h.vt, tie)
    \/ \E h \in db.hist, vt \in EditTimes \cup {NULL}, tie \in TieOrders : HistorySave(h, h.vf, vt, tie)

\* entity writes, the clock and edits of stored HistoryRecords
SpecEdit == Init /\ [][NextEdit]_vars

\* ---------------------------------------------------------- resurrection
\* resurrect_object: instance.save() with _history_date = valid_from, then,
\* when valid_to is given, a "-" row of the History model at valid_to with
\* the same attributes
ResurrectFrames(k, val, valid_from, valid_to) ==
    SaveFrames(k, val, valid_from)
        \o (IF valid_to # NULL
            THEN <<[F("history_create") EXCEPT !.key = k,
                      !.h = [NoH EXCEPT !.key = k, !.snap = val, !.type = "-", !.vf = valid_to]]>>
            ELSE <<>>)

ResurrectObject(k, valid_from, valid_to, tie) ==
    /\ valid_from # NULL
    /\ db.nextH + (IF valid_to # NULL THEN 1 ELSE 0) <= MaxHist
    /\ LET db1 == Logged(Begin(db, "resurrect_object", k, 0, valid_from),
                         Ev("window", k, 0, valid_from, valid_to, FALSE, FALSE))
       IN db' = Run(db1, ResurrectFrames(k, NewValue(db), valid_from, valid_to), now, tie)
    /\ UNCHANGED <<now, procs>>

NextResurrect ==
    \/ Next
    \/ \E k \in Keys, valid_from \in EffTimes, valid_to \in EffTimes \cup {FarTime + 1},
          tie \in TieOrders : ResurrectObject(k, valid_from, valid_to, tie)

\* entity writes, the clock and resurrect_object
SpecResurrect == Init /\ [][NextResurrect]_vars

\* ------------------------------------------------------------ queries
\* the instants a query is made for
QueryTimes == 0..(MaxTime + 1)

\* how an entity type is registered: with a History and a Meta-History
\* store, with a History store only (the Meta-History store could not be
\* attached), or with neither
Trackings == {"full", "history_only", "none"}

TrCode(tr) == CASE tr = "full" -> 2 [] tr = "history_only" -> 1 [] OTHER -> 0

\* a model class handed to get_queryset_as_of: the main model of a type or
\* its history model
ModelClasses ==
    {[level |-> "main", tr |-> x] : x \in Trackings}
        \cup {[level |-> "history", tr |-> x] : x \in Trackings \ {"none"}}

\* hasattr(model_class, "history") and not hasattr(model_class, "history_id")
IsMainModel(c) == c.level = "main" /\ c.tr # "none"

\* hasattr(model_class, "history_id")
IsHistoryModel(c) == c.level = "history"

\* hasattr(model_class, "meta_history")
HasMetaHistory(c) == c.level = "history" /\ c.tr = "full"

\* the outcome of a query: the rows returned, or the exception raised
Rows(S) == [err |-> FALSE, rows |-> S]
ValueError == [err |-> TRUE, rows |-> {}]
BadRequest == [err |-> TRUE, rows |-> {}]

\* get_queryset_as_of(model_class, as_of): valid time for a main model,
\* system time for a history model, ValueError for anything else
QuerysetAsOf(d, c, as_of) ==
    IF IsMainModel(c)
    THEN Rows({[id |-> h.hid, key |-> h.key] : h \in GetQuerysetAsOf(d, as_of)})
    ELSE IF IsHistoryModel(c)
         THEN IF ~HasMetaHistory(c)
              THEN ValueError
              ELSE Rows({[id |-> m.mid, key |-> m.key] :
                           m \in {x \in d.meta : x.sys_from <= as_of
                                                   /\ (x.sys_to > as_of \/ x.sys_to = NULL)}})
         ELSE ValueError

\* HistoryModelEntry.list with _get_history_queryset: a model without
\* history is answered with an error response; with as_of the system-time
\* query of the history model is filtered by the key, and a ValueError
\* becomes an empty queryset; without as_of all HistoryRecords of the key
\* are returned
HistoryList(d, tr, k, as_of) ==
    IF tr = "none" THEN BadRequest
    ELSE IF as_of # NULL
         THEN LET qs == QuerysetAsOf(d, [level |-> "history", tr |-> tr], as_of)
              IN IF qs.err THEN Rows({}) ELSE Rows({r \in qs.rows : r.key = k})
         ELSE Rows({[id |-> h.hid, key |-> h.key] : h \in HistOf(d, k)})

\* the log entries of an outcome: the rows by id (the order of a result is
\* not kept), or the error
RECURSIVE RowEvents(_)
RowEvents(S) ==
    IF S = {} THEN <<>>
    ELSE LET r == CHOOSE x \in S : \A y \in S : x.id <= y.id
         IN <<Ev("row", r.key, r.id, NULL, NULL, FALSE, FALSE)>> \o RowEvents(S \ {r})

OutcomeEvents(res) ==
    IF res.err THEN <<Ev("error", 0, 0, NULL, NULL, FALSE, FALSE)>> ELSE RowEvents(res.rows)

\* a caller runs get_queryset_as_of(model_class, as_of)
TimeTravel(c, as_of) ==
    /\ db' = [db EXCEPT !.log = <<Ev("get_queryset_as_of", 0, TrCode(c.tr), as_of, now,
                                     c.level = "history", FALSE)>>
                                 \o OutcomeEvents(QuerysetAsOf(db, c, as_of))]
    /\ UNCHANGED <<now, procs>>

\* GET /api/{model}/{pk}/history/ with or without ?as_of
HistoryView(tr, k, as_of) ==
    /\ db' = [db EXCEPT !.log = <<Ev("history_list", k, TrCode(tr), as_of, now, TRUE, FALSE)>>
                                 \o OutcomeEvents(HistoryList(db, tr, k, as_of))]
    /\ UNCHANGED <<now, procs>>

NextQuery ==
    \/ Next
    \/ \E c \in ModelClasses, as_of \in QueryTimes : TimeTravel(c, as_of)
    \/ \E tr \in Trackings, k \in Keys, as_of \in QueryTimes \cup {NULL} : HistoryView(tr, k, as_of)

\* entity writes, the clock and time-travel queries
SpecQuery == Init /\ [][NextQuery]_vars

\* ------------------------------------------------------------ properties
\* the last operation, as the log's first entry names it
LastOp == IF db.log = <<>> THEN NoEv ELSE db.log[1]

LastWasWrite(k) == LastOp.ev \in {"entity_save", "entity_delete"} /\ LastOp.id = k

\* the records of S in the order (valid_from, history_id)
ByValidFrom(S) ==
    CHOOSE q \in [1..Cardinality(S) -> S] :
        /\ \A a \in S : \E j \in DOMAIN q : q[j] = a
        /\ \A i, j \in DOMAIN q :
             i < j => (q[i].vf < q[j].vf \/ (q[i].vf = q[j].vf /\ q[i].hid < q[j].hid))

ChainClosure(S) ==
    LET q == ByValidFrom(S)
        n == Cardinality(S)
    IN \A j \in 1..n : q[j].vt = (IF j = n THEN NULL ELSE q[j + 1].vf)

\* C1: after an entity write (create, update or delete marker, at any
\* effective time) has run its pipeline, the HistoryRecords of the written
\* key, ordered by (valid_from, history_id), are chained: each valid_to is
\* the next record's valid_from and the last valid_to is null.
C1_ChainClosureAfterWrite ==
    \A k \in Keys : LastWasWrite(k) => ChainClosure(HistOf(db, k))

\* a back-dated write has been inserted between two records and has
\* corrected a closed window
C1_Witness ==
    /\ LastWasWrite(1)
    /\ Cardinality(HistOf(db, 1)) = 3
    /\ \E j \in DOMAIN db.log : db.log[j].ev = "rechain_save" /\ db.log[j].flag
    /\ ChainClosure(HistOf(db, 1))

\* the half-open window [valid_from, valid_to) of h contains t
InWindow(h, t) == h.vf <= t /\ (h.vt = NULL \/ t < h.vt)

\* the record of key k whose window contains t, if any
CoveringAt(k, t) == {h \in HistOf(db, k) : InWindow(h, t)}

\* the snapshot the current table should hold for key k
Projection(k) ==
    IF \E h \in CoveringAt(k, now) : h.type # "-"
    THEN (CHOOSE h \in CoveringAt(k, now) : h.type # "-").snap
    ELSE Absent

\* no armed activation is due
NoDueActivation == \A i \in DOMAIN db.timers : db.timers[i].at > now

\* C2: once the writes of a key have settled (pipelines complete, no
\* activation due), the current-table row equals the snapshot of the
\* HistoryRecord whose window contains now, and is absent when that record
\* is a deletion marker or no record covers now.
C2_SyncEquivalence ==
    NoDueActivation => \A k \in Keys : db.cur[k] = Projection(k)

Instants == 0..(MaxTime + GraceSeconds + 2)

ResultFor(k, t) == {h \in GetQuerysetAsOf(db, t) : h.key = k}

\* b is the record that follows a in the order (valid_from, history_id)
Follows(a, b) ==
    /\ a.key = b.key
    /\ a.vf < b.vf \/ (a.vf = b.vf /\ a.hid < b.hid)
    /\ ~ \E c \in HistOf(db, a.key) :
           /\ a.vf < c.vf \/ (a.vf = c.vf /\ a.hid < c.hid)
           /\ c.vf < b.vf \/ (c.vf = b.vf /\ c.hid < b.hid)

\* C3: for every instant T and key with a non-deleted record whose window
\* covers T, the valid-time query returns exactly one record of that key;
\* at a boundary T = record[i+1].valid_from it does not return record[i] and
\* returns record[i+1] when that one is a non-deleted record covering T; a
\* deletion marker is never returned.
C3_ExactlyOneEffective ==
    \A t \in Instants, k \in Keys :
        /\ (\E h \in HistOf(db, k) : h.type # "-" /\ InWindow(h, t))
              => Cardinality(ResultFor(k, t)) = 1
        /\ \A h \in ResultFor(k, t) : h.type # "-"
        /\ \A a, b \in HistOf(db, k) :
              (Follows(a, b) /\ t = b.vf) =>
                  /\ a \notin ResultFor(k, t)
                  /\ (b.type # "-" /\ InWindow(b, t)) => ResultFor(k, t) = {b}

\* two adjacent non-deleted records, queried at their common boundary
C3_Witness ==
    \E a, b \in HistOf(db, 1) :
        /\ Follows(a, b) /\ a.type # "-" /\ b.type # "-" /\ a.vf < b.vf
        /\ ResultFor(1, b.vf) = {b}
        /\ Cardinality(HistOf(db, 1)) = 3

HistIds(d, k) == {h.hid : h \in HistOf(d, k)}

InsertsIn(log) == {j \in DOMAIN log : log[j].ev = "hist_insert"}

\* C4: every entity write appends exactly one HistoryRecord: Created for a
\* create, Changed for an update, Deleted for a delete, with valid_from the
\* write's effective time (now by default) and the written snapshot; the
\* key's record count grows by one and the pipeline inserts no other
\* History row.
C4_OneRecordPerWrite ==
    [][ LET e == db'.log[1]
            k == e.id
            added == HistIds(db', k) \ HistIds(db, k)
        IN (db' # db /\ e.ev \in {"entity_save", "entity_delete"}) =>
             /\ Cardinality(HistOf(db', k)) = Cardinality(HistOf(db, k)) + 1
             /\ Cardinality(InsertsIn(db'.log)) = 1
             /\ HistIds(db, k) \subseteq HistIds(db', k)
             /\ \E h \in HistOf(db', k) :
                  /\ added = {h.hid}
                  /\ h.vf = (IF e.old = NULL THEN now ELSE e.old)
                  /\ h.type = (IF e.ev = "entity_delete" THEN "-"
                               ELSE IF db.cur[k] = Absent THEN "+" ELSE "~")
                  /\ h.snap = (IF e.ev = "entity_delete" THEN db.cur[k] ELSE NewValue(db))
      ]_vars

\* a create, an update and a delete have each appended their record, one of
\* them back-dated
C4_Witness ==
    /\ {h.type : h \in HistOf(db, 1)} = {"+", "~", "-"}
    /\ LastOp.ev = "entity_delete"
    /\ LastOp.old = 0 /\ LastOp.new = 1

BySysFrom(S) ==
    CHOOSE q \in [1..Cardinality(S) -> S] :
        /\ \A a \in S : \E j \in DOMAIN q : q[j] = a
        /\ \A i, j \in DOMAIN q :
             i < j => (q[i].sys_from < q[j].sys_from
                       \/ (q[i].sys_from = q[j].sys_from /\ q[i].mid < q[j].mid))

MetaChainClosure(S) ==
    LET q == BySysFrom(S)
        n == Cardinality(S)
    IN \A j \in 1..n : q[j].sys_to = (IF j = n THEN NULL ELSE q[j + 1].sys_from)

\* C6: after the saves of an operation have completed, the MetaRecords of
\* every HistoryRecord, ordered by (sys_from, meta_id), are chained: each
\* sys_to is the next one's sys_from and the last sys_to is null, also when
\* two of them carry the same sys_from.
C6_MetaChainClosure ==
    \A h \in db.hist : MetaChainClosure(MetaOf(db, h.hid))

\* C7: when one HistoryRecord is physically removed from a sibling set that
\* satisfied chain closure, the remaining records of the key satisfy chain
\* closure after the post-delete handler has run, whichever record was
\* removed.
C7_DeletionRepair ==
    [][ LET e == db'.log[1]
        IN (db' # db /\ e.ev = "history_delete" /\ ChainClosure(HistOf(db, e.id)))
             => ChainClosure(HistOf(db', e.id))
      ]_vars

\* the Level-1 saves of the last operation, by position in the log
SavesIn(log) == {j \in DOMAIN log : log[j].ev \in {"hist_insert", "rechain_save", "repair_save"}}

\* C8: a rechain save that changes valid_to from one non-null value to
\* another, while an open MetaRecord exists, updates that MetaRecord in
\* place with sys_from unchanged; every other save of a HistoryRecord
\* (null to value, value to null, insert) appends a MetaRecord with
\* sys_from = now.
C8_RefinementOrNewFact ==
    \A j \in SavesIn(db.log) :
        /\ j < Len(db.log)
        /\ LET s == db.log[j]
               w == db.log[j + 1]
           IN /\ w.hid = s.hid
              /\ IF s.ev = "rechain_save" /\ s.old # NULL /\ s.new # NULL /\ w.open
                 THEN w.ev = "meta_inplace" /\ w.old = w.new
                 ELSE w.ev = "meta_insert" /\ w.new = LastOp.new

\* a closed window has been corrected and its open MetaRecord refined
C8_Witness ==
    \E j \in SavesIn(db.log) :
        /\ db.log[j].ev = "rechain_save" /\ db.log[j].old # NULL /\ db.log[j].new # NULL
        /\ db.log[j + 1].ev = "meta_inplace"
        /\ db.log[j + 1].old < LastOp.new

\* C9: the second Level-1 rechain of a write (sent by
\* post_create_historical_record, with no intervening change) saves no
\* HistoryRecord and writes no MetaRecord, so a valid_to correction yields
\* one MetaRecord update in total.
C9_RefinementIdempotence ==
    /\ \A j \in DOMAIN db.log :
          db.log[j].ev = "post_create_historical_record" => j = Len(db.log)
    /\ \A j1, j2 \in DOMAIN db.log :
          (db.log[j1].ev = "meta_inplace" /\ db.log[j2].ev = "meta_inplace"
             /\ db.log[j1].hid = db.log[j2].hid) => j1 = j2

\* a write has corrected a closed window, and its second rechain has run
C9_Witness ==
    /\ \E j \in DOMAIN db.log : db.log[j].ev = "meta_inplace"
    /\ db.log[Len(db.log)].ev = "post_create_historical_record"

\* the rechain loops in progress: frames that hold the siblings as read
RechainFrames ==
    {f \in UNION {{procs[p][j] : j \in DOMAIN procs[p]} : p \in Procs} :
        f.op = "chain_valid_loop"}

\* C10: the pipeline runs of two writers on the same key are not
\* interleaved; in particular, while a rechain is between its read of all
\* siblings and its writes, no other run writes a sibling: the siblings in
\* the table are the ones the rechain has read.
C10_PerKeyAtomicUnit ==
    \A f \in RechainFrames :
        {h.hid : h \in HistOf(db, f.key)} = {f.allH[j].hid : j \in DOMAIN f.allH}

\* the timers the scheduler holds for HistoryRecord hid
TimersOf(d, hid) == {i \in DOMAIN d.timers : d.timers[i].hid = hid}

\* the MetaRecords that reference HistoryRecord hid
MetaRef(d, hid) == {m \in d.meta : m.href = hid}

\* g is a newer write that replaces h at the same effective instant
Supersedes(g, h) == g.key = h.key /\ g.hid > h.hid /\ g.vf = h.vf

\* C11: when a future-dated HistoryRecord with an armed activation is
\* superseded by a newer write before its valid_from, the activation is
\* cancelled: none of its MetaRecords stays Scheduled and the scheduler
\* holds no timer for it.
C11_SupersedeCancels ==
    \A h \in db.hist :
        (/\ h.vf > now
         /\ TimersOf(db, h.hid) # {}
         /\ \E g \in db.hist : Supersedes(g, h))
        => /\ TimersOf(db, h.hid) = {}
           /\ \A m \in MetaRef(db, h.hid) : m.task_status # "SCHEDULED"

\* the HistoryRecord inserted by the last operation
Inserted ==
    LET J == InsertsIn(db.log)
    IN IF J = {} THEN NoH
       ELSE LET hid == db.log[CHOOSE j \in J : TRUE].hid
            IN IF \E h \in db.hist : h.hid = hid
               THEN CHOOSE h \in db.hist : h.hid = hid
               ELSE NoH

\* the last operation wrote a record that starts inside the grace window
WroteInGrace ==
    /\ LastOp.ev \in {"entity_save", "entity_delete"}
    /\ LastOp.old # NULL
    /\ LastOp.new < LastOp.old /\ LastOp.old <= LastOp.new + GraceSeconds
    /\ Inserted # NoH

\* C12: a HistoryRecord written with now < valid_from <= now + grace arms
\* no activation (task_status stays None) and is reflected in the current
\* table without any later trigger or write: once its window contains now,
\* the current-table row is its snapshot (absent for a deletion marker).
C12_GraceWindow ==
    WroteInGrace =>
        LET h == Inserted
        IN /\ TimersOf(db, h.hid) = {}
           /\ \A m \in MetaRef(db, h.hid) : m.task_status = "NONE"
           /\ InWindow(h, now) =>
                db.cur[h.key] = (IF h.type = "-" THEN Absent ELSE h.snap)

\* the HistoryRecords saved by the last operation (inserted or rechained)
SavedIn(log) == {log[j].hid : j \in SavesIn(log)}

\* C13: when a HistoryRecord is saved with valid_from > now + grace and the
\* backend accepts the request, an activation for its id at valid_from is
\* registered and the latest MetaRecord of the record ends the run Scheduled,
\* with a task name no other MetaRecord carries.
C13_Arming ==
    LastOp.ev \in {"entity_save", "entity_delete"} =>
        \A h \in db.hist :
            (h.hid \in SavedIn(db.log) /\ IsFuture(h.vf, LastOp.new)) =>
                LET latest == LatestMeta(MetaOf(db, h.hid))
                IN /\ \E i \in TimersOf(db, h.hid) : db.timers[i].at = h.vf
                   /\ latest.task_status = "SCHEDULED"
                   /\ latest.task_name # NoTask
                   /\ \A m \in db.meta : m.task_name = latest.task_name => m.mid = latest.mid

\* the instant at which HistoryRecord h was written: the sys_from of its
\* first MetaRecord
WrittenAt(h) ==
    LET M == {m \in db.meta : m.hid = h.hid}
    IN IF M = {} THEN h.vf
       ELSE (CHOOSE m \in M : \A x \in M : m.mid <= x.mid).sys_from

\* C14: every HistoryRecord written with a future valid_from that is neither
\* removed nor superseded is the current-table row once now has reached its
\* valid_from and the scheduler has fired the timers that are due, with no
\* further write to its key.
C14_ActivationLiveness ==
    \A h \in db.hist :
        (WrittenAt(h) < h.vf /\ InWindow(h, now) /\ NoDueActivation)
        => db.cur[h.key] = (IF h.type = "-" THEN Absent ELSE h.snap)

\* the task status the pre-delete handler must leave on a MetaRecord
AfterCancel(status) == IF status = "SCHEDULED" THEN "CANCELLED" ELSE status

\* C15: when a HistoryRecord is physically deleted, every MetaRecord that
\* references it with task_status Scheduled becomes Cancelled and the
\* scheduler holds no timer for the record any more; MetaRecords with another
\* status keep it, and the row is removed.
C15_CancelBeforeRemoval ==
    [][ LET e == db'.log[1]
            hid == e.hid
        IN (db' # db /\ e.ev = "history_delete") =>
             /\ ~ \E h \in db'.hist : h.hid = hid
             /\ TimersOf(db', hid) = {}
             /\ \A m \in MetaRef(db, hid) : \E x \in db'.meta :
                  x.mid = m.mid /\ x.task_status = AfterCancel(m.task_status)
      ]_vars

\* the current-table value the synchronizer leaves for key k
Synced(d, k, t) ==
    LET r == EffectiveRecord(d, k, t) IN IF IsValid(r) THEN r.snap ELSE Absent

\* C16: when arming the activation of a future-dated HistoryRecord fails
\* (backend unavailable), the write still succeeds: the record is stored,
\* the rechain and the sync have run, no error reaches the writer, no timer
\* exists and the record's MetaRecords keep task_status None.
C16_SchedulingFailureNonFatal ==
    [][ LET e == db'.log[1]
            k == e.id
            added == HistIds(db', k) \ HistIds(db, k)
        IN (/\ db' # db /\ db'.backend = db.backend /\ ~db.backend
            /\ e.ev \in {"entity_save", "entity_delete"}
            /\ e.old # NULL /\ IsFuture(e.old, now))
           => /\ \E h \in HistOf(db', k) :
                   /\ added = {h.hid}
                   /\ h.vf = e.old
                   /\ TimersOf(db', h.hid) = {}
                   /\ \A m \in MetaRef(db', h.hid) : m.task_status = "NONE"
              /\ ChainClosure(HistOf(db', k))
              /\ db'.cur[k] = Synced(db', k, now)
              /\ \A j \in DOMAIN db'.log : db'.log[j].ev # "error"
      ]_vars

\* a future-dated record has been written, after an earlier record, while
\* the backend was unavailable: it is stored and nothing is armed for it
C16_Witness ==
    /\ ~db.backend
    /\ LastOp.ev = "entity_save" /\ LastOp.old # NULL /\ IsFuture(LastOp.old, LastOp.new)
    /\ Inserted # NoH /\ Inserted.vf = LastOp.old
    /\ TimersOf(db, Inserted.hid) = {}
    /\ Cardinality(HistOf(db, 1)) >= 2
    /\ \E j \in DOMAIN db.log : db.log[j].ev = "rechain_save"

\* the HistoryRecord with id hid, or NoH
HistById(hid) ==
    IF \E h \in db.hist : h.hid = hid THEN CHOOSE h \in db.hist : h.hid = hid ELSE NoH

\* the last operation ran to its end on key k
Succeeded(k, ops) ==
    /\ LastOp.ev \in ops /\ LastOp.id = k
    /\ \A j \in DOMAIN db.log : db.log[j].ev # "error"
    /\ now = LastOp.new

\* no inserted HistoryRecord is rolled back
Durable == \A j \in InsertsIn(db.log) : \E h \in db.hist : h.hid = db.log[j].hid

Returned == {db.log[j].hid : j \in {x \in DOMAIN db.log : db.log[x].ev = "row"}}

\* the last operation was a system-time query of a history model that has a
\* Meta-History store: get_queryset_as_of itself, or the history endpoint
\* with ?as_of (which keeps the rows of one key)
SystemTimeQuery ==
    /\ LastOp.hid = TrCode("full")
    /\ \/ LastOp.ev = "get_queryset_as_of" /\ LastOp.flag
       \/ LastOp.ev = "history_list" /\ LastOp.old # NULL

Asked(m) == LastOp.ev = "get_queryset_as_of" \/ m.key = LastOp.id

\* the MetaRecord of S that was recorded last among those recorded up to t
KnownAt(S, t) == {m \in S : m.sys_from <= t}
CurrentAt(S, t) ==
    {m \in KnownAt(S, t) : \A x \in KnownAt(S, t) :
        x.sys_from < m.sys_from \/ (x.sys_from = m.sys_from /\ x.mid <= m.mid)}

\* C18: a system-time query for the instant T returns exactly the
\* MetaRecords with sys_from <= T and (sys_to > T or sys_to null); it
\* returns nothing recorded after T, and for each HistoryRecord that had a
\* MetaRecord by T it returns exactly one MetaRecord, the one that was
\* recorded last up to T.
C18_SystemTimeQuery ==
    SystemTimeQuery =>
        LET T == LastOp.old
            M == {m \in db.meta : Asked(m)}
        IN /\ Returned = {m.mid : m \in {x \in M : x.sys_from <= T
                                                    /\ (x.sys_to > T \/ x.sys_to = NULL)}}
           /\ \A m \in M : m.mid \in Returned => m.sys_from <= T
           /\ \A h \in db.hist :
                LET S == {m \in M : m.href = h.hid}
                IN KnownAt(S, T) # {} =>
                     {m.mid : m \in {x \in S : x.mid \in Returned}}
                         = {m.mid : m \in CurrentAt(S, T)}

\* e opens a time-travel query on a type without a History store, or on a
\* history model without a Meta-History store
NotTrackedQuery(e) ==
    \/ e.ev = "get_queryset_as_of" /\ ~e.flag /\ e.hid = TrCode("none")
    \/ e.ev = "get_queryset_as_of" /\ e.flag /\ e.hid = TrCode("history_only")
    \/ e.ev = "history_list" /\ e.old # NULL /\ e.hid \in {TrCode("none"), TrCode("history_only")}

ErrorReturned(log) ==
    /\ \E j \in DOMAIN log : log[j].ev = "error"
    /\ \A j \in DOMAIN log : log[j].ev # "row"

\* C19: a time-travel query on a type that has no History store, or on a
\* history model without a Meta-History store, returns an error to its
\* caller and no result, and changes no stored record.
C19_NotTrackedSurfaced ==
    [][ (db'.log # <<>> /\ db' # db /\ NotTrackedQuery(db'.log[1]))
          => /\ ErrorReturned(db'.log)
             /\ db'.hist = db.hist /\ db'.meta = db.meta
             /\ db'.cur = db.cur /\ db'.timers = db.timers
      ]_vars

\* what is stored for the entity k: its HistoryRecords, their MetaRecords
\* and its current-table row
StoredFor(d, k) ==
    [hist |-> {h \in d.hist : h.key = k},
     meta |-> {m \in d.meta : \E h \in d.hist : h.key = k /\ m.href = h.hid},
     cur |-> d.cur[k]]

\* C20: a write to the entity k changes no HistoryRecord, no MetaRecord and
\* no current-table row of another entity; every MetaRecord belongs to one
\* HistoryRecord, and so to one entity.
C20_KeyIndependence ==
    [][ (db' # db /\ db'.log # <<>> /\ db'.log[1].ev \in {"entity_save", "entity_delete"})
          => /\ \A k \in AllKeys \ {db'.log[1].id} : StoredFor(db', k) = StoredFor(db, k)
             /\ \A m \in db'.meta : Cardinality({h \in db'.hist : h.hid = m.href}) = 1
      ]_vars

\* both entities have history, and the last write has rechained the records
\* of entity 1
C20_Witness ==
    /\ LastWasWrite(1)
    /\ Cardinality(HistIds(db, 1)) >= 2 /\ HistIds(db, 2) # {}
    /\ \E j \in DOMAIN db.log : db.log[j].ev = "rechain_save"
    /\ \E m \in db.meta : m.key = 2

\* the fields of a HistoryRecord other than valid_to
Fixed(h) == <<h.hid, h.key, h.vf, h.type, h.snap>>

\* the values the caller has put into the record it saved
EditOf(log) == log[CHOOSE j \in DOMAIN log : log[j].ev = "edit"]

\* C21: an operation changes, of the HistoryRecords that exist, nothing but
\* valid_to: the rechain and the deletion repair create no record and
\* delete none (an entity write inserts its own record, a physical removal
\* removes the one it was called for), and valid_from, version type and
\* snapshot of every record stay as stored; a record that a caller saved
\* with a valid_from of its choice has that valid_from after the run.
C21_OnlyValidToChanges ==
    [][ (db' # db /\ db'.log # <<>>) =>
          LET e == db'.log[1]
              ids == {h.hid : h \in db.hist}
              ids2 == {h.hid : h \in db'.hist}
              inserted == {db'.log[j].hid : j \in InsertsIn(db'.log)}
          IN /\ ids2 \ ids = inserted
             /\ e.ev \in {"history_save", "history_delete"} => inserted = {}
             /\ ids \ ids2 = (IF e.ev = "history_delete" THEN {e.hid} ELSE {})
             /\ \A h \in db.hist, g \in db'.hist :
                   (h.hid = g.hid /\ ~(e.ev = "history_save" /\ e.hid = h.hid))
                      => Fixed(g) = Fixed(h)
             /\ e.ev = "history_save" =>
                   \A h \in db.hist, g \in db'.hist :
                      (h.hid = e.hid /\ g.hid = e.hid)
                         => Fixed(g) = Fixed([h EXCEPT !.vf = EditOf(db'.log).old])
      ]_vars

\* a caller has moved the valid_from of a record, the rechain has saved a
\* sibling, and the record has the valid_from the caller gave it
C21_Witness ==
    /\ LastOp.ev = "history_save"
    /\ \E j \in DOMAIN db.log : db.log[j].ev = "rechain_save" /\ db.log[j].hid # LastOp.hid
    /\ \E h \in db.hist : h.hid = LastOp.hid /\ h.vf = EditOf(db.log).old /\ h.vf = FarTime

\* the record resurrect_object has appended: the first insert of the run
Resurrected ==
    LET j == CHOOSE x \in InsertsIn(db.log) : \A y \in InsertsIn(db.log) : x <= y
    IN HistById(db.log[j].hid)

\* the records the run has appended
AppendedBy(log) == {log[j].hid : j \in InsertsIn(log)}

\* no record of the key, other than those the call appended, starts inside
\* [valid_from, valid_to)
NothingInside(k, valid_from, valid_to) ==
    \A h \in HistOf(db, k) :
        h.hid \notin AppendedBy(db.log)
            => ~(valid_from <= h.vf /\ (valid_to = NULL \/ h.vf < valid_to))

\* C22: after resurrect_object(model, pk, valid_from, attributes, valid_to)
\* a record for pk with the attributes starts at valid_from, a deletion
\* marker stands at valid_to when valid_to was given, the record's window
\* is [valid_from, valid_to), chain closure holds for pk, and the current
\* row is present exactly when valid_from <= now < valid_to (valid_from <=
\* now without valid_to), provided no other record of pk starts inside the
\* window.
C22_Resurrect ==
    (LastOp.ev = "resurrect_object" /\ NoDueActivation) =>
        LET k == LastOp.id
            valid_from == db.log[2].old
            valid_to == db.log[2].new
            r == Resurrected
        IN (NothingInside(k, valid_from, valid_to) /\ (valid_to = NULL \/ valid_from < valid_to)) =>
             /\ r.key = k /\ r.vf = valid_from /\ r.type # "-"
             /\ valid_to # NULL =>
                  \E g \in HistOf(db, k) : g.type = "-" /\ g.vf = valid_to /\ g.snap = r.snap
                                           /\ g.hid \in AppendedBy(db.log)
             /\ r.vt = valid_to
             /\ ChainClosure(HistOf(db, k))
             /\ (db.cur[k] # Absent) <=> (valid_from <= now /\ (valid_to = NULL \/ now < valid_to))
             /\ db.cur[k] # Absent => db.cur[k] = r.snap

\* the saves the rechain has made of the record hid during the run, and the
\* MetaRecord writes (appends and in-place updates) made for it
RechainSaves(log, hid) == {j \in DOMAIN log : log[j].ev = "rechain_save" /\ log[j].hid = hid}
MetaWrites(log, hid) ==
    {j \in DOMAIN log : log[j].ev \in {"meta_insert", "meta_inplace"} /\ log[j].hid = hid}

\* C23: during the pipeline of one write the rechain saves a HistoryRecord
\* only when its valid_to has to change: every record is saved at most once
\* by the rechain, every such save changes the stored value, and it gives
\* rise to exactly one MetaRecord write (the record the write has inserted
\* has one more, that of its insertion).
C23_MinimalWrites ==
    (LastOp.ev \in {"entity_save", "entity_delete"}) =>
        \A h \in db.hist :
            /\ Cardinality(RechainSaves(db.log, h.hid)) <= 1
            /\ Cardinality(MetaWrites(db.log, h.hid))
                 = Cardinality(RechainSaves(db.log, h.hid))
                     + (IF h.hid \in {db.log[j].hid : j \in InsertsIn(db.log)} THEN 1 ELSE 0)

\* the operations that run the rechain for the key they are about
RechainRan(k) == LastOp.ev \in {"entity_save", "entity_delete", "history_save"} /\ LastOp.id = k

\* C24: when a key has exactly one HistoryRecord after a run of the
\* pipeline, that record's valid_to is null, whatever valid_to the caller
\* had saved on it.
C24_SingleRecordOpen ==
    \A k \in Keys :
        (RechainRan(k) /\ Cardinality(HistOf(db, k)) = 1)
            => \A h \in HistOf(db, k) : h.vt = NULL

\* a caller has saved a valid_to on the only record of the key
C24_Witness ==
    /\ LastOp.ev = "history_save" /\ LastOp.id = 1
    /\ EditOf(db.log).new # NULL
    /\ Cardinality(HistOf(db, 1)) = 1
    /\ \E j \in DOMAIN db.log : db.log[j].ev = "rechain_save" /\ db.log[j].new = NULL

\* C25: after a HistoryRecord has been physically removed and the delete
\* handlers have run, the current-table row of its key equals the snapshot
\* of the remaining record that covers now, and is absent when none covers
\* now or when that record is a deletion marker.
C25_ProjectionAfterRemoval ==
    (LastOp.ev = "history_delete" /\ now = LastOp.new)
        => db.cur[LastOp.id] = Projection(LastOp.id)

\* a further rechain of the key's HistoryRecords, or of the MetaRecords of
\* one of them, would save nothing
Quiescent(k) ==
    /\ NextDiffH(SortHist(HistOf(db, k)), 1) = 0
    /\ \A h \in HistOf(db, k), tie \in TieOrders :
          NextDiffM(SortMetaById(MetaOf(db, h.hid), tie), 1) = 0

\* C26: the pipeline of a write stops after finitely many saves (the
\* handlers are never nested beyond what the interpreter allows), and when
\* it has stopped a further rechain at either level would write nothing.
C26_PipelineTerminates ==
    /\ ~Overflowed
    /\ \A k \in Keys : (LastWasWrite(k) /\ procs[1] = <<>>) => Quiescent(k)

\* the writer is about to run a statement of sync_record_for_model
SyncStep ==
    /\ procs[1] # <<>>
    /\ Len(procs[1]) <= MaxDepth
    /\ Head(procs[1]).op \in {"sync_main_table", "sync_apply"}

PendingFor(hid) == {i \in DOMAIN db.timers : db.timers[i].hid = hid}

ScheduledFor(hid) == {m \in MetaOf(db, hid) : m.task_status = "SCHEDULED"}

\* C28: for every HistoryRecord at most one timer is pending and at most one
\* of its MetaRecords has task_status Scheduled, whatever saves of the record
\* (its insertion, rechain saves that change its valid_to) came before.
C28_OnePendingActivation ==
    \A h \in db.hist :
        /\ Cardinality(PendingFor(h.hid)) <= 1
        /\ Cardinality(ScheduledFor(h.hid)) <= 1
\* the open MetaRecords of HistoryRecord hid
OpenMeta(hid) == {m \in MetaOf(db, hid) : m.sys_to = NULL}

Mirrors(m, h) ==
    /\ m.snap = h.snap
    /\ m.vf = h.vf
    /\ m.vt = h.vt
    /\ m.htype = h.type

\* C29: when a pipeline run has completed, every HistoryRecord has exactly
\* one open MetaRecord, that MetaRecord is the one written last for it, and
\* its copied snapshot, valid_from, valid_to and version type are those the
\* HistoryRecord stores.
C29_CurrentKnowledgeMirrors ==
    \A h \in db.hist :
        /\ Cardinality(OpenMeta(h.hid)) = 1
        /\ \A m \in OpenMeta(h.hid) :
              /\ \A x \in MetaOf(db, h.hid) : x.mid <= m.mid
              /\ Mirrors(m, h)
\* no writer is inside a pipeline
AllFinished == \A p \in Procs : procs[p] = <<>>

\* C30: when two writers have appended or back-dated versions of one key
\* with their statements interleaved in any way and both pipelines have
\* finished, the HistoryRecords of the key satisfy chain closure.
C30_ConvergenceWithoutLock ==
    AllFinished => \A k \in Keys : ChainClosure(HistOf(db, k))
\* both writers have finished, and the MetaRecords of a HistoryRecord show
\* that a valid_to which is not its final one was stored after the final one
\* had been stored: a writer wrote a stale valid_to, and it was corrected
C30_Witness ==
    /\ AllFinished
    /\ \E h \in db.hist :
          /\ Cardinality(HistOf(db, h.key)) = MaxRace
          /\ \E a, b \in MetaOf(db, h.hid) :
                a.mid < b.mid /\ a.vt = h.vt /\ b.vt # h.vt /\ b.vt # NULL
====
